---- MODULE Spec2Model ----
(***************************************************************************)
(* A model of the generative art machine: the seed hash, the random        *)
(* expression-tree builder Generate, the evaluation of a tree at a pixel,  *)
(* the row-band parallel rasterizer and quality gate of CreateImage, and   *)
(* the HTTP handlers that call CreateImage on the process-wide math/rand   *)
(* source.                                                                 *)
(*                                                                         *)
(* Each part of the program has its own specification over the variables   *)
(* it uses (SpecHash, SpecPixel, SpecGen, SpecImage, SpecServer); the      *)
(* variables of the other parts stay at their idle values.                 *)
(*                                                                         *)
(* Numbers.  TLC integers are 32-bit, so a uint32 is modelled as the pair  *)
(* <<hi, lo>> of its 16-bit halves.  A float64 is modelled in fixed point: *)
(* the integer n stands for n / Scale.  Scale is a power of two, so the    *)
(* values n / Scale and 128 + (n / Scale) * 127 are exact float64 values   *)
(* and the conversion to a byte is modelled exactly.                       *)
(***************************************************************************)
EXTENDS Integers, Sequences, FiniteSets, TLC

VARIABLES
    seed,       \* SpecHash: the seed string, as its sequence of bytes
    hashed,     \* SpecHash: the value hash(seed) returned, or None
    evalOut,    \* SpecPixel: the (r, g, b) triple Eval returned for a pixel
    stored,     \* SpecPixel: the color.RGBA stored for it, or None
    genArgs,    \* SpecGen: the arguments <<minDepth, maxDepth>> of the outermost Generate call
    genStack,   \* SpecGen: the work Generate still has to do, next frame first
    genLeaves,  \* SpecGen: the depths at which Generate has produced a leaf so far
    size,       \* SpecImage: the size argument of CreateImage
    numWorkers, \* SpecImage: runtime.GOMAXPROCS(0)
    pc,         \* SpecImage: where the goroutine running CreateImage is
    attempts,   \* SpecImage: the loop variable of the retry loop
    art,        \* SpecImage: the tree of the current attempt
    img,        \* SpecImage: the buffer of the current attempt: its number and its pixels
    spawned,    \* SpecImage: the loop variable of the loop that starts the workers
    wg,         \* SpecImage: the counter of the sync.WaitGroup
    workers,    \* SpecImage: each worker goroutine's state and loop variables
    variance,   \* SpecImage: the variable variance, times (size*size)^2
    metrics,    \* SpecImage: the metric of every attempt so far, in order
    built,      \* SpecImage: the number of trees Generate has built
    writers,    \* SpecImage: for each pixel of the buffer, the workers that wrote it, in order
    warned,     \* SpecImage: whether the low-variance warning was printed
    returned,   \* SpecImage: the buffer CreateImage returned, or None
    rngSeed,    \* SpecServer: the seed the process-wide math/rand source was last given
    rngPos,     \* SpecServer: the number of draws from it since then
    handlers    \* SpecServer: the goroutines that serve the /generate requests

hashVars == <<seed, hashed>>
pixelVars == <<evalOut, stored>>
genVars == <<genArgs, genStack, genLeaves>>
imageVars == <<size, numWorkers, pc, attempts, art, img, spawned, wg, workers,
               variance, metrics, built, writers, warned, returned>>
serverVars == <<rngSeed, rngPos, handlers>>
vars == <<hashVars, pixelVars, genVars, imageVars, serverVars>>

None == [none |-> TRUE]

(***************************************************************************)
(* Bounds of the model.                                                    *)
(***************************************************************************)
MaxSeedLen == 3     \* seed strings of at most this many bytes
MaxDepthArg == 3    \* SpecGen calls Generate with maxDepth in 0..MaxDepthArg
RawLevels == 10     \* a random draw is one of RawLevels equally likely values
MaxSize == 2        \* SpecImage calls CreateImage with size in 1..MaxSize
MaxWorkers == 3     \* SpecImage runs with 1..MaxWorkers workers
NumHandlers == 2    \* SpecServer serves this many requests at a time
DepthCap == 0       \* SpecServer cuts the trees of Generate(10, 30) at this depth
ValueBound == 300   \* finite channel values range over -ValueBound..ValueBound (in 1/Scale)

Scale == 2^8

Min2(a, b) == IF a < b THEN a ELSE b
Max2(a, b) == IF a > b THEN a ELSE b

(***************************************************************************)
(* 32-bit unsigned arithmetic on <<hi, lo>> pairs.                         *)
(***************************************************************************)
Half == 2^16

RECURSIVE Xor(_, _)
\* bitwise exclusive or of two naturals
Xor(a, b) ==
    IF a = 0 THEN b
    ELSE IF b = 0 THEN a
    ELSE 2 * Xor(a \div 2, b \div 2) + ((a + b) % 2)

\* uint32(c) for a rune c (at most 21 bits)
U32(c) == <<c \div Half, c % Half>>

\* h ^ k on uint32
Xor32(h, k) == <<Xor(h[1], k[1]), Xor(h[2], k[2])>>

\* h * 16777619 on uint32 (wraps modulo 2^32); 16777619 = 256 * 2^16 + 403
MulPrime(h) ==
    LET kh == 16777619 \div Half
        kl == 16777619 % Half
        low == h[2] * kl
    IN  <<(h[1] * kl + h[2] * kh + (low \div Half)) % Half, low % Half>>

\* uint32(2166136261) = 0x811C9DC5
OffsetBasis == <<33052, 40389>>

(***************************************************************************)
(* Strings.  A Go string is a sequence of bytes; `for _, c := range seed`  *)
(* decodes it as UTF-8, one rune per iteration, and yields U+FFFD for each *)
(* byte that does not start a well-formed encoding.                        *)
(***************************************************************************)
RuneError == 65533

IsCont(b) == b >= 128 /\ b <= 191

\* The rune that starts at position i of s and the number of bytes it takes.
DecodeRune(s, i) ==
    LET b0 == s[i]
        n  == Len(s) - i + 1          \* bytes available
        bad == <<RuneError, 1>>
    IN  IF b0 < 128 THEN <<b0, 1>>
        ELSE IF b0 >= 194 /\ b0 <= 223 THEN
            IF n >= 2 /\ IsCont(s[i + 1])
            THEN <<(b0 - 192) * 64 + (s[i + 1] - 128), 2>>
            ELSE bad
        ELSE IF b0 >= 224 /\ b0 <= 239 THEN
            IF /\ n >= 3
               /\ s[i + 1] >= (IF b0 = 224 THEN 160 ELSE 128)
               /\ s[i + 1] <= (IF b0 = 237 THEN 159 ELSE 191)
               /\ IsCont(s[i + 2])
            THEN <<(b0 - 224) * 4096 + (s[i + 1] - 128) * 64 + (s[i + 2] - 128), 3>>
            ELSE bad
        ELSE IF b0 >= 240 /\ b0 <= 244 THEN
            IF /\ n >= 4
               /\ s[i + 1] >= (IF b0 = 240 THEN 144 ELSE 128)
               /\ s[i + 1] <= (IF b0 = 244 THEN 143 ELSE 191)
               /\ IsCont(s[i + 2])
               /\ IsCont(s[i + 3])
            THEN <<(b0 - 240) * 262144 + (s[i + 1] - 128) * 4096
                     + (s[i + 2] - 128) * 64 + (s[i + 3] - 128), 4>>
            ELSE bad
        ELSE bad

RECURSIVE HashFrom(_, _, _)
\* the loop of hash: h after the runes of s from position i on
HashFrom(s, i, h) ==
    IF i > Len(s) THEN h
    ELSE LET d == DecodeRune(s, i)
         IN  HashFrom(s, i + d[2], Xor32(MulPrime(h), U32(d[1])))

\* hash(seed)
hash(s) == HashFrom(s, 1, OffsetBasis)

\* The bytes seeds are made of: 'a', 'b', the two bytes of U+00E9, the three
\* bytes of U+20AC, and 0xFF, which is never part of a UTF-8 encoding.
SeedBytes == {97, 98, 195, 169, 226, 130, 172, 255}

RECURSIVE SeqsUpTo(_, _)
SeqsUpTo(S, n) ==
    IF n = 0 THEN {<<>>}
    ELSE LET shorter == SeqsUpTo(S, n - 1)
         IN  shorter \cup {Append(q, x) : q \in shorter, x \in S}

Seeds == SeqsUpTo(SeedBytes, MaxSeedLen)

(***************************************************************************)
(* Channel values.  A float64 is finite ("fin", n / Scale), an infinity or *)
(* a NaN.                                                                  *)
(***************************************************************************)
Fin(n) == [cls |-> "fin", n |-> n]
NaN == [cls |-> "nan", n |-> 0]
PosInf == [cls |-> "pinf", n |-> 0]
NegInf == [cls |-> "ninf", n |-> 0]

\* value < k and value > k for a float64 value and a whole number k
LessThan(value, k) ==
    \/ value.cls = "ninf"
    \/ value.cls = "fin" /\ value.n < k * Scale
GreaterThan(value, k) ==
    \/ value.cls = "pinf"
    \/ value.cls = "fin" /\ value.n > k * Scale

\* normalize without its upper clamp
normalize_NoUpperClamp(value) ==
    IF LessThan(value, -1) THEN Fin(-Scale) ELSE value

\* normalize(value)
normalize(value) ==
    IF LessThan(value, -1) THEN Fin(-Scale)
    ELSE IF GreaterThan(value, 1) THEN Fin(Scale)
    ELSE value

\* integer quotient rounded toward zero
TruncDiv(a, b) == IF a >= 0 THEN a \div b ELSE -((-a) \div b)

\* The bytes uint8(128 + r*127) can be.  Go truncates a float toward zero when
\* it converts it to an integer; the result for a NaN, an infinity or a value
\* outside 0..255 is implementation-specific, any byte.
ChannelByte(r) ==
    IF r.cls = "fin"
    THEN LET t == TruncDiv(128 * Scale + r.n * 127, Scale)
         IN  IF t >= 0 /\ t <= 255 THEN {t} ELSE 0..255
    ELSE 0..255

\* The color.RGBA values CreateImage can build from the triple Eval returned.
PixelColors(rgb) ==
    [R : ChannelByte(normalize(rgb[1])),
     G : ChannelByte(normalize(rgb[2])),
     B : ChannelByte(normalize(rgb[3])),
     A : {255}]

FineValues == {Fin(n) : n \in (-ValueBound)..ValueBound} \cup {NaN, PosInf, NegInf}
CoarseValues == {Fin(-Scale - 1), Fin(0), Fin(Scale \div 2), PosInf}

(***************************************************************************)
(* SpecHash: hash applied to every seed string of the bounds.              *)
(***************************************************************************)
IdleHash == seed = <<>> /\ hashed = None
IdlePixel == evalOut = None /\ stored = None
IdleGen == genArgs = None /\ genStack = <<>> /\ genLeaves = {}
IdleImage ==
    /\ size = 0 /\ numWorkers = 0 /\ pc = "idle" /\ attempts = 0 /\ art = None
    /\ img = None /\ spawned = 0 /\ wg = 0 /\ workers = <<>> /\ variance = 0
    /\ metrics = <<>> /\ built = 0 /\ writers = <<>> /\ warned = FALSE
    /\ returned = None
IdleServer == rngSeed = None /\ rngPos = 0 /\ handlers = <<>>

InitHash ==
    /\ seed \in Seeds
    /\ hashed = None
    /\ IdlePixel /\ IdleGen /\ IdleImage /\ IdleServer

ApplyHash ==
    /\ hashed = None
    /\ hashed' = hash(seed)
    /\ UNCHANGED <<seed, pixelVars, genVars, imageVars, serverVars>>

NextHash == ApplyHash

SpecHash == InitHash /\ [][NextHash]_vars

(***************************************************************************)
(* SpecPixel: the conversion of one pixel's Eval result to a color.RGBA.   *)
(***************************************************************************)
InitPixel ==
    /\ IdleHash /\ IdleGen /\ IdleImage /\ IdleServer
    /\ evalOut \in FineValues \X CoarseValues \X CoarseValues
    /\ stored = None

StorePixel ==
    /\ stored = None
    /\ stored' \in PixelColors(evalOut)
    /\ UNCHANGED <<evalOut, hashVars, genVars, imageVars, serverVars>>

NextPixel == StorePixel

SpecPixel == InitPixel /\ [][NextPixel]_vars

(***************************************************************************)
(* Claims about hash.                                                      *)
(***************************************************************************)
RECURSIVE ByteFoldFrom(_, _, _)
\* the fold h := (h * 16777619 mod 2^32) xor c over the bytes c of s from i on
ByteFoldFrom(s, i, h) ==
    IF i > Len(s) THEN h
    ELSE ByteFoldFrom(s, i + 1, Xor32(MulPrime(h), U32(s[i])))

\* C7: for every seed string, hash(seed) is the fold, from 2166136261, of
\* h := ((h * 16777619) mod 2^32) xor c over the individual bytes c of the
\* string, also when the string holds bytes >= 128; hash("") = 2166136261.
C7_HashIsByteFold ==
    hashed # None =>
        /\ hashed = ByteFoldFrom(seed, 1, OffsetBasis)
        /\ (seed = <<>> => hashed = <<33052, 40389>>)

(***************************************************************************)
(* Claims about the stored channel bytes.                                  *)
(***************************************************************************)
\* v saturated to [-1, 1], in 1/Scale, for a v that is not a NaN
Saturated(v) ==
    IF v.cls = "pinf" THEN Scale
    ELSE IF v.cls = "ninf" THEN -Scale
    ELSE Max2(-Scale, Min2(Scale, v.n))

Channels == <<"R", "G", "B">>

\* b is 128 + c*127 with its fraction dropped: b <= 128 + c*127 < b + 1
IsTruncationOf(b, c) ==
    /\ b * Scale <= 128 * Scale + 127 * c
    /\ 128 * Scale + 127 * c < (b + 1) * Scale

\* b is 128 + c*127 rounded to a nearest integer: |128 + c*127 - b| <= 1/2
IsRoundingOf(b, c) ==
    LET d == 128 * Scale + 127 * c - b * Scale
    IN  2 * d <= Scale /\ -2 * d <= Scale

\* C8, with truncation in the place of rounding: for every channel value v that is not a NaN, the stored
\* byte is 128 + c*127 truncated toward zero, c being v saturated to [-1, 1],
\* and lies in 1..255; the stored alpha is always 255.
C8_StoredIsTruncated ==
    stored # None =>
        /\ stored.A = 255
        /\ \A i \in 1..3 :
              evalOut[i].cls # "nan" =>
                  /\ IsTruncationOf(stored[Channels[i]], Saturated(evalOut[i]))
                  /\ stored[Channels[i]] \in 1..255

\* C8, with rounding: the stored byte is round(128 + c*127).
C8_StoredIsRounded ==
    stored # None =>
        \A i \in 1..3 :
            evalOut[i].cls # "nan" =>
                IsRoundingOf(stored[Channels[i]], Saturated(evalOut[i]))

\* A pixel is stored whose red value has a fraction that truncation drops
\* (255/256 gives 254.5..., stored as 254) and whose green value is below -1
\* and saturates to the byte 1.
C8_Witness ==
    /\ stored # None
    /\ evalOut[1] = Fin(Scale - 1) /\ stored.R = 254
    /\ evalOut[2] = Fin(-Scale - 1) /\ stored.G = 1
    /\ evalOut[3] = PosInf /\ stored.B = 255

(***************************************************************************)
(* Generate.  Every call of math/rand is one step: the process-wide source *)
(* is locked per call, so a draw is atomic and nothing else of Generate    *)
(* is visible to another goroutine.  The work still to do is a stack of    *)
(* frames, the next one first:                                             *)
(*   "call"   a call Generate(min, max) that has not drawn yet,            *)
(*   "leaf"   a call that decided to return a leaf and draws rand.Intn(3), *)
(*   "op"     a call that decided to return an operator and draws          *)
(*            rand.Intn(4),                                                *)
(*   "param"  a rand.Float64() that becomes a parameter of the node.       *)
(* A draw is a raw value in 0..RawLevels-1: rand.Float64() is              *)
(* raw / RawLevels and rand.Intn(n) is raw % n.  The tree is written down  *)
(* in the order it is built, which is the order String() prints it: each   *)
(* node's name and then its parameters and children.                       *)
(***************************************************************************)
RawValues == 0..(RawLevels - 1)

Frame(f, min, max, depth) == [f |-> f, min |-> min, max |-> max, depth |-> depth]
Call(min, max, depth) == Frame("call", min, max, depth)
Param == Frame("param", 0, 0, 0)
Token(t, v) == [t |-> t, v |-> v]

\* rand.Float64() < 0.2
Bernoulli(raw) == 5 * raw < RawLevels

\* rand.Intn(n)
Intn(raw, n) == raw % n

\* maxDepth == 0, one level late
ForcedLeaf_OneLate(maxDepth) == maxDepth = -1

\* maxDepth == 0
ForcedLeaf(maxDepth) == maxDepth = 0

\* minDepth <= 0, one level early
MayStop_OneEarly(minDepth) == minDepth <= 1

\* minDepth <= 0
MayStop(minDepth) == minDepth <= 0

\* Generate(minDepth-1, maxDepth-1), called from a node at `depth`
Sub(min, max, depth) == Call(min - 1, max - 1, depth + 1)

Effect(push, emit, leaf) == [push |-> push, emit |-> emit, leaf |-> leaf]

\* switch rand.Intn(3): the leaf returned at `depth`
LeafStep(raw, depth) ==
    CASE Intn(raw, 3) = 0 -> Effect(<<>>, <<Token("VariableX", 0)>>, {depth})
      [] Intn(raw, 3) = 1 -> Effect(<<>>, <<Token("VariableY", 0)>>, {depth})
      [] OTHER -> Effect(<<Param, Param, Param>>, <<Token("Constant", 0)>>, {depth})

\* switch rand.Intn(4): the operator returned, its parameters drawn before
\* its children are generated
OpStep(raw, min, max, depth) ==
    CASE Intn(raw, 4) = 0 ->
            Effect(<<Param, Param, Sub(min, max, depth)>>, <<Token("Sin", 0)>>, {})
      [] Intn(raw, 4) = 1 ->
            Effect(<<Param, Sub(min, max, depth), Sub(min, max, depth)>>,
                   <<Token("Mix", 0)>>, {})
      [] Intn(raw, 4) = 2 ->
            Effect(<<Sub(min, max, depth), Sub(min, max, depth)>>,
                   <<Token("Product", 0)>>, {})
      [] OTHER ->
            Effect(<<Param, Sub(min, max, depth)>>, <<Token("FractalNoise", 0)>>, {})

\* What the draw `raw` does to the frame on top of the stack: the frames that
\* replace it, the tokens written, and the depth of the leaf returned, if any.
GenStep(frame, raw) ==
    CASE frame.f = "param" -> Effect(<<>>, <<Token("param", raw)>>, {})
      [] frame.f = "leaf" -> LeafStep(raw, frame.depth)
      [] frame.f = "op" -> OpStep(raw, frame.min, frame.max, frame.depth)
      [] OTHER ->
            IF ForcedLeaf(frame.max) THEN LeafStep(raw, frame.depth)
            ELSE IF MayStop(frame.min) THEN
                IF Bernoulli(raw)
                THEN Effect(<<Frame("leaf", frame.min, frame.max, frame.depth)>>, <<>>, {})
                ELSE Effect(<<Frame("op", frame.min, frame.max, frame.depth)>>, <<>>, {})
            ELSE OpStep(raw, frame.min, frame.max, frame.depth)

(***************************************************************************)
(* Expression trees and Eval.  A node is a record with its type in `op`.   *)
(* Eval works on fixed-point numbers; a product or quotient is rounded to  *)
(* the nearest 1/Scale, and math.Sin is Bhaskara's rational approximation, *)
(* so a value differs from the float64 one by the rounding of the model.   *)
(***************************************************************************)
Constant(r, g, b) == [op |-> "Constant", r |-> r, g |-> g, b |-> b]
VariableX == [op |-> "VariableX"]
VariableY == [op |-> "VariableY"]
Sin(phase, freq, sub) == [op |-> "Sin", phase |-> phase, freq |-> freq, sub |-> sub]
Product(left, right) == [op |-> "Product", left |-> left, right |-> right]
Mix(w, left, right) == [op |-> "Mix", w |-> w, left |-> left, right |-> right]
Well(sub) == [op |-> "Well", sub |-> sub]
FractalNoise(scale, sub) == [op |-> "FractalNoise", scale |-> scale, sub |-> sub]

\* a / b rounded to the nearest integer (b > 0)
RoundDiv(a, b) == (2 * a + b) \div (2 * b)

FixMul(a, b) == RoundDiv(a * b, Scale)
FixDiv(a, b) == RoundDiv(a * Scale, b)

PiQ == (355 * Scale) \div 113

\* math.Sin(t / Scale) for an angle t in [0, 2*pi): Bhaskara's approximation
\* 16 u (pi - u) / (5 pi^2 - 4 u (pi - u)) on [0, pi], negated on (pi, 2*pi)
SinTable ==
    [t \in 0..(2 * PiQ - 1) |->
        LET u == IF t <= PiQ THEN t ELSE t - PiQ
            p == u * (PiQ - u)
            b == RoundDiv(16 * p * Scale, 5 * PiQ * PiQ - 4 * p)
        IN  IF t <= PiQ THEN b ELSE -b]

\* math.Sin(v)
SinQ(v) == SinTable[v % (2 * PiQ)]

\* math.Cos(v)
CosQ(v) == SinQ(v + PiQ \div 2)

\* 0.5 * (math.Sin(t) + math.Cos(t)) for an angle t in [0, 2*pi)
SmoothTable == [t \in 0..(2 * PiQ - 1) |-> RoundDiv(SinQ(t) + CosQ(t), 2)]

\* the well function of Well.Eval
WellOf(v) == Scale - FixDiv(2 * Scale, Scale + FixMul(v, v))

\* the smooth function of FractalNoise.Eval
SmoothOf(v) == SmoothTable[(5 * v) % (2 * PiQ)]

\* m.w*a + (1-m.w)*b
MixOf(w, a, b) == FixMul(w, a) + FixMul(Scale - w, b)

RECURSIVE EvalChannel(_, _, _, _)
\* Channel c (1 for r, 2 for g, 3 for b) of node.Eval(x, y).  Every Eval
\* works on the three channels alike and apart, with the same x and y.
EvalChannel(node, x, y, c) ==
    CASE node.op = "Constant" -> <<node.r, node.g, node.b>>[c]
      [] node.op = "VariableX" -> x
      [] node.op = "VariableY" -> y
      [] node.op = "Sin" ->
            SinQ(node.phase + FixMul(node.freq, EvalChannel(node.sub, x, y, c)))
      [] node.op = "Product" ->
            FixMul(EvalChannel(node.left, x, y, c), EvalChannel(node.right, x, y, c))
      [] node.op = "Mix" ->
            MixOf(node.w, EvalChannel(node.left, x, y, c),
                  EvalChannel(node.right, x, y, c))
      [] node.op = "Well" -> WellOf(EvalChannel(node.sub, x, y, c))
      [] node.op = "FractalNoise" ->
            SmoothOf(EvalChannel(node.sub, FixMul(x, node.scale),
                                 FixMul(y, node.scale), c))

\* node.Eval(x, y)
Eval(node, x, y) ==
    <<EvalChannel(node, x, y, 1), EvalChannel(node, x, y, 2), EvalChannel(node, x, y, 3)>>

\* rand.Float64()*2 - 1 lies in [-1, 1)
InUnit(v) == v >= -Scale /\ v < Scale

RECURSIVE CanGenerate(_, _, _)
\* Whether Generate(minDepth, maxDepth) can return the tree `node`: the leaf
\* and operator conditions and the parameter ranges of Generate, by recursion
\* on the tree.  Well is never generated.
CanGenerate(node, minDepth, maxDepth) ==
    LET isLeaf == node.op \in {"Constant", "VariableX", "VariableY"}
    IN  IF isLeaf
        THEN /\ ForcedLeaf(maxDepth) \/ MayStop(minDepth)
             /\ node.op = "Constant" =>
                    InUnit(node.r) /\ InUnit(node.g) /\ InUnit(node.b)
        ELSE /\ ~ForcedLeaf(maxDepth)
             /\ CASE node.op = "Sin" ->
                        /\ node.phase >= 0 /\ node.phase < 2 * PiQ
                        /\ 2 * node.freq >= Scale /\ 2 * node.freq < 7 * Scale
                        /\ CanGenerate(node.sub, minDepth - 1, maxDepth - 1)
                  [] node.op = "Mix" ->
                        /\ node.w >= 0 /\ node.w < Scale
                        /\ CanGenerate(node.left, minDepth - 1, maxDepth - 1)
                        /\ CanGenerate(node.right, minDepth - 1, maxDepth - 1)
                  [] node.op = "Product" ->
                        /\ CanGenerate(node.left, minDepth - 1, maxDepth - 1)
                        /\ CanGenerate(node.right, minDepth - 1, maxDepth - 1)
                  [] node.op = "FractalNoise" ->
                        /\ 2 * node.scale >= Scale /\ 2 * node.scale < 5 * Scale
                        /\ CanGenerate(node.sub, minDepth - 1, maxDepth - 1)
                  [] OTHER -> FALSE

(***************************************************************************)
(* SpecGen: one call Generate(minDepth, maxDepth), for every sequence of   *)
(* draws.  FairSpecGen adds that a running call keeps taking steps.        *)
(***************************************************************************)
InitGen ==
    /\ IdleHash /\ IdlePixel /\ IdleImage /\ IdleServer
    /\ genArgs \in ((-1)..(MaxDepthArg + 1)) \X (0..MaxDepthArg)
    /\ genStack = <<Call(genArgs[1], genArgs[2], 0)>>
    /\ genLeaves = {}

GenDraw ==
    /\ genStack # <<>>
    /\ \E raw \in RawValues :
          LET e == GenStep(Head(genStack), raw)
          IN  /\ genStack' = e.push \o Tail(genStack)
              /\ genLeaves' = genLeaves \cup e.leaf
    /\ UNCHANGED <<genArgs, hashVars, pixelVars, imageVars, serverVars>>

NextGen == GenDraw

SpecGen == InitGen /\ [][NextGen]_vars

FairSpecGen == SpecGen /\ WF_vars(GenDraw)

GenReturned == genArgs # None /\ genStack = <<>>

\* C5: for all minDepth and all maxDepth >= 0 and every sequence of draws,
\* Generate(minDepth, maxDepth) terminates, and no leaf of the tree it
\* builds lies deeper than maxDepth.
C5_TerminatesWithinMaxDepth ==
    /\ <>GenReturned
    /\ [](\A d \in genLeaves : d <= genArgs[2])

\* Generate(0, MaxDepthArg) has returned a tree with a leaf at the root's
\* child level and a leaf at the full depth MaxDepthArg.
C5_Witness ==
    /\ GenReturned
    /\ genArgs = <<0, MaxDepthArg>>
    /\ {1, MaxDepthArg} \subseteq genLeaves

\* C10: every leaf of the tree Generate(minDepth, maxDepth) builds lies at
\* depth >= min(max(minDepth, 0), maxDepth).
C10_LeavesBelowMinDepth ==
    \A d \in genLeaves : d >= Min2(Max2(genArgs[1], 0), genArgs[2])

\* Generate(2, MaxDepthArg) has returned a tree whose shallowest leaf is at
\* depth 2, the minimum, and which has a deeper leaf too.
C10_Witness ==
    /\ GenReturned
    /\ genArgs = <<2, MaxDepthArg>>
    /\ 2 \in genLeaves
    /\ MaxDepthArg \in genLeaves

(***************************************************************************)
(* CreateImage: the rasterizer and the quality gate.                       *)
(***************************************************************************)
\* the bound the comment of the loop names: "Retry up to 5 times"
MaxAttempts_Five == 3 + 2

MaxAttempts == 3
MinDepth == 10
MaxDepth == 30
AcceptThreshold == 30
WarnThreshold == 50

Pixels(sz) == (0..(sz - 1)) \X (0..(sz - 1))      \* <<px, py>>

ZeroPixel == [R |-> 0, G |-> 0, B |-> 0, A |-> 0]

\* image.NewRGBA(image.Rect(0, 0, size, size))
NewRGBA(sz) == [p \in Pixels(sz) |-> ZeroPixel]

\* rowsPerWorker := size / numWorkers
RowsPerWorker(sz, n) == sz \div n

\* every worker starts at row 0
StartRow_Zero(worker, rowsPerWorker) == 0

\* startRow := worker * rowsPerWorker
StartRow(worker, rowsPerWorker) == worker * rowsPerWorker

\* endRow without the last worker's remainder rows
EndRow_NoRemainder(worker, startRow, rowsPerWorker, n, sz) == startRow + rowsPerWorker

\* endRow := startRow + rowsPerWorker; if worker == numWorkers-1 { endRow = size }
EndRow(worker, startRow, rowsPerWorker, n, sz) ==
    IF worker = n - 1 THEN sz ELSE startRow + rowsPerWorker

\* 2*float64(p)/float64(size) - 1
Coord(p, sz) == RoundDiv(2 * p * Scale, sz) - Scale

\* The colors a worker can store at (px, py): Eval, normalize and the uint8
\* conversions of lines 207-216.
PixelAt(tree, px, py, sz) ==
    UNION { PixelColors(<<Fin(rgb[1]), Fin(rgb[2]), Fin(rgb[3])>>) :
                rgb \in {Eval(tree, Coord(px, sz), Coord(py, sz))} }

RECURSIVE ChannelTotal(_, _, _, _, _)
\* The sum over the pixels numbered i and up, row by row, of the channel c,
\* or of its square when sq.
ChannelTotal(pix, sz, c, sq, i) ==
    IF i >= sz * sz THEN 0
    ELSE LET v == pix[<<i % sz, i \div sz>>][c]
         IN  (IF sq THEN v * v ELSE v) + ChannelTotal(pix, sz, c, sq, i + 1)

\* calculateColorVariance(img, size), squared and times pixelCount^2:
\* the sum over the channels of pixelCount * (sum of squares) - (sum)^2.
calculateColorVariance(pix, sz) ==
    LET term(c) == sz * sz * ChannelTotal(pix, sz, c, TRUE, 0)
                     - ChannelTotal(pix, sz, c, FALSE, 0) * ChannelTotal(pix, sz, c, FALSE, 0)
    IN  term("R") + term("G") + term("B")

\* variance > threshold
Exceeds(v, threshold, sz) == v > threshold * threshold * (sz * sz) * (sz * sz)

\* the warning tested against the acceptance threshold
LowVariance_AtAccept(v, sz) == ~Exceeds(v, AcceptThreshold, sz)

\* variance <= 50.0
LowVariance(v, sz) == ~Exceeds(v, WarnThreshold, sz)

\* wg.Wait() that does not wait
WaitReturns_NoBarrier(counter) == TRUE

\* wg.Wait() returns when the counter is zero
WaitReturns(counter) == counter = 0

RECURSIVE SinChain(_, _, _, _)
\* k Sin nodes, one inside the other, around sub
SinChain(k, phase, freq, sub) ==
    IF k = 0 THEN sub ELSE Sin(phase, freq, SinChain(k - 1, phase, freq, sub))

RECURSIVE NoiseChain(_, _, _)
\* k FractalNoise nodes, one inside the other, around sub
NoiseChain(k, scale, sub) ==
    IF k = 0 THEN sub ELSE FractalNoise(scale, NoiseChain(k - 1, scale, sub))

Half1 == Scale \div 2

\* Trees of depth MinDepth and more, one at least of every generated type.
SampleTrees ==
    { SinChain(MinDepth, 0, Scale, Constant(Half1, -Half1, 0)),
      SinChain(MinDepth, 0, Scale, VariableX),
      SinChain(MinDepth, 0, 3 * Half1, VariableY),
      NoiseChain(MinDepth, Half1, VariableX),
      Mix((2 * Scale) \div 5, SinChain(MinDepth, 0, 3 * Half1, VariableX),
                 NoiseChain(MinDepth - 1, Scale, VariableY)),
      Product(SinChain(MinDepth - 1, 0, 3 * Half1, VariableX),
              SinChain(MinDepth - 1, Half1, 3 * Half1, VariableY)) }

\* The trees Generate(10, 30) returns in the model.
Arts == {t \in SampleTrees : CanGenerate(t, MinDepth, MaxDepth)}

IdleWorker == [st |-> "idle", py |-> 0, px |-> 0, endRow |-> 0]

(***************************************************************************)
(* SpecImage: one call of CreateImage after rand.Seed (SpecServer has the  *)
(* random source).  A worker's step is one pixel: Eval, normalize, Set.    *)
(***************************************************************************)
InitImage ==
    /\ IdleHash /\ IdlePixel /\ IdleGen /\ IdleServer
    /\ size \in 1..MaxSize
    /\ numWorkers \in 1..MaxWorkers
    /\ pc = "alloc"
    /\ attempts = 0
    /\ art = None
    /\ img = [id |-> 0, pix |-> <<>>]
    /\ spawned = 0
    /\ wg = 0
    /\ workers = <<>>
    /\ variance = 0
    /\ metrics = <<>>
    /\ built = 0
    /\ writers = <<>>
    /\ warned = FALSE
    /\ returned = None

\* img = image.NewRGBA(...)
AllocImage ==
    /\ pc = "alloc"
    /\ img' = [id |-> img.id + 1, pix |-> NewRGBA(size)]
    /\ writers' = [p \in Pixels(size) |-> <<>>]
    /\ pc' = "generate"
    /\ UNCHANGED <<size, numWorkers, attempts, art, spawned, wg, workers, variance,
                   metrics, built, warned, returned>>

\* art := Generate(10, 30); var wg sync.WaitGroup
BuildTree ==
    /\ pc = "generate"
    /\ art' \in Arts
    /\ built' = built + 1
    /\ wg' = 0
    /\ spawned' = 0
    /\ workers' = [w \in 0..(numWorkers - 1) |-> IdleWorker]
    /\ pc' = "spawn"
    /\ UNCHANGED <<size, numWorkers, attempts, img, variance, metrics, writers,
                   warned, returned>>

\* wg.Add(1); go func(worker int) {...}(worker)
SpawnWorker ==
    /\ pc = "spawn"
    /\ spawned < numWorkers
    /\ wg' = wg + 1
    /\ LET rowsPerWorker == RowsPerWorker(size, numWorkers)
           startRow == StartRow(spawned, rowsPerWorker)
       IN  workers' = [workers EXCEPT ![spawned] =
                [st |-> "run", py |-> startRow, px |-> 0,
                 endRow |-> EndRow(spawned, startRow, rowsPerWorker, numWorkers, size)]]
    /\ spawned' = spawned + 1
    /\ pc' = IF spawned + 1 < numWorkers THEN "spawn" ELSE "wait"
    /\ UNCHANGED <<size, numWorkers, attempts, art, img, variance, metrics, built,
                   writers, warned, returned>>

\* one iteration of the pixel loops of a worker
WorkerPixel(w) ==
    /\ workers[w].st = "run"
    /\ workers[w].py < workers[w].endRow
    /\ LET px == workers[w].px
           py == workers[w].py
       IN  /\ \E c \in PixelAt(art, px, py, size) :
                 img' = [img EXCEPT !.pix[<<px, py>>] = c]
           /\ writers' = [writers EXCEPT ![<<px, py>>] = Append(@, w)]
           /\ workers' = [workers EXCEPT ![w] =
                 IF px + 1 < size
                 THEN [@ EXCEPT !.px = px + 1]
                 ELSE [@ EXCEPT !.px = 0, !.py = py + 1]]
    /\ UNCHANGED <<size, numWorkers, pc, attempts, art, spawned, wg, variance,
                   metrics, built, warned, returned>>

\* the worker's loops are over: defer wg.Done()
WorkerDone(w) ==
    /\ workers[w].st = "run"
    /\ workers[w].py >= workers[w].endRow
    /\ workers' = [workers EXCEPT ![w].st = "done"]
    /\ wg' = wg - 1
    /\ UNCHANGED <<size, numWorkers, pc, attempts, art, img, spawned, variance,
                   metrics, built, writers, warned, returned>>

\* wg.Wait()
WaitWorkers ==
    /\ pc = "wait"
    /\ WaitReturns(wg)
    /\ pc' = "variance"
    /\ UNCHANGED <<size, numWorkers, attempts, art, img, spawned, wg, workers,
                   variance, metrics, built, writers, warned, returned>>

\* variance = calculateColorVariance(img, size)
ComputeVariance ==
    /\ pc = "variance"
    /\ variance' = calculateColorVariance(img.pix, size)
    /\ metrics' = Append(metrics, variance')
    /\ pc' = "gate"
    /\ UNCHANGED <<size, numWorkers, attempts, art, img, spawned, wg, workers,
                   built, writers, warned, returned>>

\* if variance > 30.0 { break }
GateAccept ==
    /\ pc = "gate"
    /\ Exceeds(variance, AcceptThreshold, size)
    /\ pc' = "warn"
    /\ UNCHANGED <<size, numWorkers, attempts, art, img, spawned, wg, workers,
                   variance, metrics, built, writers, warned, returned>>

\* otherwise: attempts++, and the loop goes on while attempts < 3
GateRetry ==
    /\ pc = "gate"
    /\ ~Exceeds(variance, AcceptThreshold, size)
    /\ attempts' = attempts + 1
    /\ pc' = IF attempts + 1 < MaxAttempts THEN "alloc" ELSE "warn"
    /\ UNCHANGED <<size, numWorkers, art, img, spawned, wg, workers, variance,
                   metrics, built, writers, warned, returned>>

\* if variance <= 50.0 { print the warning }; return img
Finish ==
    /\ pc = "warn"
    /\ warned' = LowVariance(variance, size)
    /\ returned' = img
    /\ pc' = "done"
    /\ UNCHANGED <<size, numWorkers, attempts, art, img, spawned, wg, workers,
                   variance, metrics, built, writers>>

NextImage ==
    \/ AllocImage /\ UNCHANGED <<hashVars, pixelVars, genVars, serverVars>>
    \/ BuildTree /\ UNCHANGED <<hashVars, pixelVars, genVars, serverVars>>
    \/ SpawnWorker /\ UNCHANGED <<hashVars, pixelVars, genVars, serverVars>>
    \/ \E w \in DOMAIN workers :
          WorkerPixel(w) /\ UNCHANGED <<hashVars, pixelVars, genVars, serverVars>>
    \/ \E w \in DOMAIN workers :
          WorkerDone(w) /\ UNCHANGED <<hashVars, pixelVars, genVars, serverVars>>
    \/ WaitWorkers /\ UNCHANGED <<hashVars, pixelVars, genVars, serverVars>>
    \/ ComputeVariance /\ UNCHANGED <<hashVars, pixelVars, genVars, serverVars>>
    \/ GateAccept /\ UNCHANGED <<hashVars, pixelVars, genVars, serverVars>>
    \/ GateRetry /\ UNCHANGED <<hashVars, pixelVars, genVars, serverVars>>
    \/ Finish /\ UNCHANGED <<hashVars, pixelVars, genVars, serverVars>>

SpecImage == InitImage /\ [][NextImage]_vars

\* Every goroutine that can run does run.
FairSpecImage == SpecImage /\ WF_vars(NextImage)

(***************************************************************************)
(* Claims about CreateImage.                                               *)
(***************************************************************************)
\* The rows [startRow, endRow) of worker w.
Band(w) ==
    LET rowsPerWorker == RowsPerWorker(size, numWorkers)
        startRow == StartRow(w, rowsPerWorker)
    IN  startRow..(EndRow(w, startRow, rowsPerWorker, numWorkers, size) - 1)

Running == pc # "idle"

\* The rasterization pass of the current attempt is over.
RasterDone ==
    \/ pc \in {"variance", "gate", "warn", "done"}
    \/ pc = "alloc" /\ attempts > 0

\* C1: the row bands of the numWorkers workers are pairwise disjoint and
\* their union is the rows 0..size-1 (also when size < numWorkers); no pixel
\* is written twice, a pixel is written by the worker whose band holds its
\* row, and after the pass every pixel has been written exactly once.
C1_BandsPartitionRows ==
    Running =>
        /\ \A v, w \in 0..(numWorkers - 1) : v # w => Band(v) \cap Band(w) = {}
        /\ UNION {Band(w) : w \in 0..(numWorkers - 1)} = 0..(size - 1)
        /\ \A p \in DOMAIN writers :
              /\ Len(writers[p]) <= 1
              /\ Len(writers[p]) = 1 => p[2] \in Band(writers[p][1])
        /\ RasterDone => \A p \in Pixels(size) : Len(writers[p]) = 1

\* A pass with more workers than rows is over: the last worker alone wrote
\* all the pixels of the two rows.
C1_Witness ==
    /\ pc = "variance"
    /\ size = 2 /\ numWorkers = 3
    /\ \A p \in Pixels(size) : writers[p] = <<2>>

\* C2: the metric is computed, the gate decided, the next attempt started
\* and the image returned only when every worker of the attempt has
\* finished; before the first attempt no worker exists.
C2_BarrierBeforeMetric ==
    Running =>
        /\ RasterDone \/ (pc = "generate" /\ attempts > 0) =>
              /\ DOMAIN workers = 0..(numWorkers - 1)
              /\ \A w \in DOMAIN workers : workers[w].st = "done"
        /\ pc \notin {"spawn", "wait"} =>
              \A w \in DOMAIN workers : workers[w].st # "run"

\* The metric of a second attempt is about to be computed and the three
\* workers of that attempt have all finished.
C2_Witness ==
    /\ pc = "variance"
    /\ attempts = 1
    /\ numWorkers = 3
    /\ \A w \in 0..2 : workers[w].st = "done"

\* What C3 says of a call that has returned.
C3_Final ==
    LET k == Len(metrics)
    IN  /\ k >= 1 /\ k <= 3
        /\ built = k
        /\ img.id = k
        /\ returned = img
        /\ \A i \in 1..(k - 1) : ~Exceeds(metrics[i], 30, size)
        /\ Exceeds(metrics[k], 30, size) \/ k = 3
        /\ variance = metrics[k]

SingleWorkerPixel(tree, p, sz) ==
    LET rowsPerWorker == RowsPerWorker(sz, 1)
        startRow == StartRow(0, rowsPerWorker)
        endRow == EndRow(0, startRow, rowsPerWorker, 1, sz)
    IN  IF p[2] >= startRow /\ p[2] < endRow
        THEN PixelAt(tree, p[1], p[2], sz)
        ELSE {ZeroPixel}

\* C6: after a pass with numWorkers workers, under every interleaving, the
\* buffer is the buffer a pass with one worker leaves for the same tree and
\* size.
C6_SameAsSingleWorker ==
    Running /\ RasterDone =>
        \A p \in Pixels(size) :
            /\ img.pix[p] \in SingleWorkerPixel(art, p, size)
            /\ Cardinality(SingleWorkerPixel(art, p, size)) = 1

\* Two workers have rasterized a tree whose value depends on x and on y, one
\* row each, and the four pixels are not all the same.
C6_Witness ==
    /\ pc = "variance"
    /\ size = 2 /\ numWorkers = 2
    /\ art.op = "Product"
    /\ img.pix[<<0, 0>>] # img.pix[<<0, 1>>]
    /\ img.pix[<<0, 0>>] # img.pix[<<1, 0>>]

Accepted == Exceeds(variance, 30, size)

\* C9, by the final metric alone: the warning is printed exactly when the final metric is
\* <= 50.0: for every call that exhausted its 3 attempts, and also for a
\* call accepted by the loop with a metric in (30.0, 50.0]; never for a call
\* whose metric exceeds 50.0.
C9_WarnedIffAtMost50 ==
    pc = "done" =>
        /\ warned <=> ~Exceeds(variance, 50, size)
        /\ ~Accepted => warned /\ Len(metrics) = 3
        /\ Accepted /\ warned => Exceeds(variance, 30, size) /\ ~Exceeds(variance, 50, size)

\* C9, by the degraded path: the warning is printed only when all 3 attempts were
\* exhausted without the metric exceeding 30.0.
C9_WarnedOnlyWhenDegraded ==
    pc = "done" /\ warned =>
        /\ Len(metrics) = 3
        /\ \A i \in 1..3 : ~Exceeds(metrics[i], 30, size)

\* A call accepted at its first attempt, with a metric above 30.0 and at most
\* 50.0, printed the warning.
C9_Witness ==
    /\ pc = "done"
    /\ Len(metrics) = 1
    /\ Accepted
    /\ warned

(***************************************************************************)
(* SpecServer: NumHandlers requests to /generate served at a time, each by *)
(* its own goroutine (net/http), all on the one process-wide math/rand     *)
(* source.  rand.Seed(s) restarts the source's stream; the stream is a     *)
(* function of the seed and of the number of draws since.  Rasterization   *)
(* draws nothing, and whether the gate accepts is left open here.  The     *)
(* trees of Generate(10, 30) are cut at depth DepthCap.                    *)
(***************************************************************************)
\* the i-th draw after rand.Seed(int64(s))
Stream(s, i) == (s[1] + s[2] + i * i + 3 * i) % RawLevels

\* the seed parameters of the requests: "", "a" and "b"
RequestSeeds == {<<>>, <<97>>, <<98>>}

FirstCall == Call(MinDepth, Min2(MaxDepth, DepthCap), 0)

NewHandler == [pc |-> "request", seed |-> <<>>, stack |-> <<>>, tree |-> <<>>,
               first |-> None, attempts |-> 0]

InitServer ==
    /\ IdleHash /\ IdlePixel /\ IdleGen /\ IdleImage
    /\ rngSeed = U32(1)
    /\ rngPos = 0
    /\ handlers = [h \in 1..NumHandlers |-> NewHandler]

\* generateImage reads the seed parameter and rejects an empty one
Request(h) ==
    /\ handlers[h].pc = "request"
    /\ \E sd \in RequestSeeds :
          handlers' = [handlers EXCEPT ![h].seed = sd,
                          ![h].pc = IF sd = <<>> THEN "rejected" ELSE "seed"]
    /\ UNCHANGED <<rngSeed, rngPos>>

\* CreateImage: rand.Seed(int64(hash(seed))), and the first attempt begins
SeedRand(h) ==
    /\ handlers[h].pc = "seed"
    /\ rngSeed' = hash(handlers[h].seed)
    /\ rngPos' = 0
    /\ handlers' = [handlers EXCEPT ![h].pc = "generate", ![h].stack = <<FirstCall>>]

\* one call of math/rand by Generate
Draw(h) ==
    /\ handlers[h].pc = "generate"
    /\ LET e == GenStep(Head(handlers[h].stack), Stream(rngSeed, rngPos))
           stack == e.push \o Tail(handlers[h].stack)
           tree == handlers[h].tree \o e.emit
       IN  handlers' = [handlers EXCEPT
                ![h].stack = stack,
                ![h].tree = tree,
                ![h].pc = IF stack = <<>> THEN "raster" ELSE "generate",
                ![h].first = IF stack = <<>> /\ handlers[h].attempts = 0
                             THEN [tree |-> tree] ELSE @]
    /\ rngPos' = rngPos + 1
    /\ UNCHANGED rngSeed

\* the tree is rasterized and the gate accepts the image, or the retries are used up
Accept(h) ==
    /\ handlers[h].pc = "raster"
    /\ handlers' = [handlers EXCEPT ![h].pc = "done"]
    /\ UNCHANGED <<rngSeed, rngPos>>

\* the tree is rasterized and the gate rejects the image: the next attempt begins
Retry(h) ==
    /\ handlers[h].pc = "raster"
    /\ handlers[h].attempts + 1 < MaxAttempts
    /\ handlers' = [handlers EXCEPT ![h].pc = "generate", ![h].attempts = @ + 1,
                        ![h].stack = <<FirstCall>>, ![h].tree = <<>>]
    /\ UNCHANGED <<rngSeed, rngPos>>

NextServer ==
    \/ \E h \in DOMAIN handlers :
          Request(h) /\ UNCHANGED <<hashVars, pixelVars, genVars, imageVars>>
    \/ \E h \in DOMAIN handlers :
          SeedRand(h) /\ UNCHANGED <<hashVars, pixelVars, genVars, imageVars>>
    \/ \E h \in DOMAIN handlers :
          Draw(h) /\ UNCHANGED <<hashVars, pixelVars, genVars, imageVars>>
    \/ \E h \in DOMAIN handlers :
          Accept(h) /\ UNCHANGED <<hashVars, pixelVars, genVars, imageVars>>
    \/ \E h \in DOMAIN handlers :
          Retry(h) /\ UNCHANGED <<hashVars, pixelVars, genVars, imageVars>>

SpecServer == InitServer /\ [][NextServer]_vars

RECURSIVE RunGenerate(_, _, _, _)
\* The tree Generate builds when nothing else draws: the draws of the stream
\* of s from position i on, in order.
RunGenerate(stack, s, i, tree) ==
    IF stack = <<>> THEN tree
    ELSE LET e == GenStep(Head(stack), Stream(s, i))
         IN  RunGenerate(e.push \o Tail(stack), s, i + 1, tree \o e.emit)

\* C4: the tree of the first attempt of CreateImage(seed, size) is the tree
\* the first draws of the stream of hash(seed) give, whether the calls run
\* one after another or overlap.
C4_FirstTreeFromSeed ==
    \A h \in DOMAIN handlers :
        handlers[h].first # None =>
            handlers[h].first.tree =
                RunGenerate(<<FirstCall>>, hash(handlers[h].seed), 0, <<>>)

====
